---- MODULE Spec2Model ----
(***************************************************************************)
(* Model of the node (V8/Nan) specialization of the scripting-value        *)
(* bridge, src/node/node_value.hpp: the is_* predicates, the from_*        *)
(* constructors and the to_* extractions, over a heap of byte blocks that  *)
(* holds the caller's native buffer, the engine's backing stores and the   *)
(* buffers the bridge allocates.                                           *)
(***************************************************************************)
EXTENDS Integers, Sequences, FiniteSets, TLC

\* Bounds of the model.
MaxLen == 2
MaxObjs == 2
MaxWrites == 1

\* A byte is abstracted to two values; enough to tell any two positions apart.
Byte == {0, 1}

VARIABLES heap, objs, last, held, terminating, writes

vars == <<heap, objs, last, held, terminating, writes>>

----------------------------------------------------------------------------
\* Memory: blocks of bytes, each owned by the caller (native code), the
\* engine (ArrayBuffer / Buffer backing stores) or the bridge (new char[]).

NumBlocks == MaxObjs + 2
Blocks == 1..NumBlocks
\* the block of the caller's native buffer, the source of from_binary
SrcBlk == 1

Zeros(n) == [i \in 1..n |-> 0]
\* n bytes no two neighbours of which are equal
Pattern(n) == [i \in 1..n |-> i % 2]

Ptr(b, o) == [blk |-> b, off |-> o]
\* nullptr
Null == Ptr(0, 0)
\* &placeholder: the address of a stack local of make_owned_binary_data
Placeholder == Ptr(-1, 0)

FreeBlock == [owner |-> "free", bytes |-> <<>>]

HasFree(h) == \E b \in Blocks : h[b].owner = "free"
NewBlk(h) == CHOOSE b \in Blocks : h[b].owner = "free" /\ \A c \in Blocks : h[c].owner = "free" => b <= c

\* operator new[] / the engine's allocator: a fresh block holding `bytes`
Alloc(h, who, bytes) == [h EXCEPT ![NewBlk(h)] = [owner |-> who, bytes |-> bytes]]
Free(h, b) == [h EXCEPT ![b] = FreeBlock]

\* the n bytes at p
Read(h, p, n) == IF n = 0 THEN <<>> ELSE SubSeq(h[p.blk].bytes, p.off + 1, p.off + n)

\* memcpy(p, bytes, Len(bytes))
Memcpy(h, p, bytes) ==
    IF Len(bytes) = 0 THEN h
    ELSE [h EXCEPT ![p.blk].bytes =
            [i \in 1..Len(@) |-> IF i > p.off /\ i <= p.off + Len(bytes) THEN bytes[i - p.off] ELSE @[i]]]

Min(a, b) == IF a < b THEN a ELSE b

----------------------------------------------------------------------------
\* Doubles: finite values, the infinities and NaN.

Fin(v) == [c |-> "finite", v |-> v]
NaN == [c |-> "nan", v |-> 0]
PosInf == [c |-> "inf", v |-> 1]
NegInf == [c |-> "inf", v |-> -1]
Doubles == {Fin(-1), Fin(0), Fin(1), NaN, PosInf, NegInf}
\* std::isnan
isnan(d) == d.c = "nan"

Strings == {"", "1", "a"}

\* A v8::Local<v8::Value>: the type tag t of the value it refers to ("empty"
\* for an empty handle), its payload (b, n, s), the binary host object it
\* denotes (id, an index of objs) and, for an object, whether its user-defined
\* conversion to a primitive throws (thr) and the number it yields (n).
HV(t, b, n, s, id, thr) == [t |-> t, b |-> b, n |-> n, s |-> s, id |-> id, thr |-> thr]

Empty == HV("empty", FALSE, NaN, "", 0, FALSE)
Undefined == HV("undefined", FALSE, NaN, "", 0, FALSE)
NullValue == HV("null", FALSE, Fin(0), "", 0, FALSE)
Boolean(b) == HV("boolean", b, IF b THEN Fin(1) ELSE Fin(0), "", 0, FALSE)
Number(d) == HV("number", FALSE, d, "", 0, FALSE)
StringValue(s) == HV("string", FALSE, IF s = "" THEN Fin(0) ELSE IF s = "1" THEN Fin(1) ELSE NaN, s, 0, FALSE)
Symbol == HV("symbol", FALSE, NaN, "", 0, TRUE)
Object(d, thr) == HV("object", FALSE, d, "", 0, thr)
Array == HV("array", FALSE, Fin(0), "", 0, FALSE)
Date == HV("date", FALSE, Fin(1), "", 0, FALSE)
Function == HV("function", FALSE, NaN, "", 0, FALSE)
\* the handle of the binary host object objs[i]
Binary(os, i) == HV(os[i].rep, FALSE, NaN, "", i, FALSE)

BinaryReps == {"ArrayBuffer", "ArrayBufferView", "BufferView", "Buffer"}
ObjectTypes == {"object", "array", "date", "function"} \cup BinaryReps

\* the host values that denote no binary host object
PlainValues ==
    {Undefined, NullValue, Symbol, Array, Date, Function}
        \cup {Boolean(b) : b \in BOOLEAN}
        \cup {Number(d) : d \in Doubles}
        \cup {StringValue(s) : s \in Strings}
        \cup {Object(d, thr) : d \in {Fin(1), NaN}, thr \in BOOLEAN}

\* every valid (non-empty) handle the caller can hold in the state os
HostValues(os) == PlainValues \cup {Binary(os, i) : i \in DOMAIN os}

\* v8::Maybe<T> / v8::MaybeLocal<T>
Just(x) == [just |-> TRUE, val |-> x]
Nothing == [just |-> FALSE, val |-> FALSE]
FromMaybe(m, default) == IF m.just THEN m.val ELSE default

----------------------------------------------------------------------------
\* Classification.

is_array(v) == v.t = "array"
is_array_buffer(v) == v.t = "ArrayBuffer"
is_array_buffer_view(v) == v.t \in {"ArrayBufferView", "BufferView"}
is_date(v) == v.t = "date"
is_boolean(v) == v.t = "boolean"
is_constructor(v) == v.t = "function"
is_function(v) == v.t = "function"
is_null(v) == v.t = "null"
is_number(v) == v.t = "number"
is_object(v) == v.t \in ObjectTypes
is_string(v) == v.t = "string"
is_undefined(v) == v.t = "undefined"
\* ::node::Buffer::HasInstance
Buffer_HasInstance(v) == v.t \in {"BufferView", "Buffer"}
\* is_binary that forgets the node Buffer
is_binary_noBuffer(v) == is_array_buffer(v) \/ is_array_buffer_view(v)
is_binary(v) == is_array_buffer(v) \/ is_array_buffer_view(v) \/ Buffer_HasInstance(v)
is_valid(v) == ~(v.t = "empty")

----------------------------------------------------------------------------
\* The engine's coercions, as Nan::To<T> reports them.  A value that already
\* has the target type is returned as it is; any other coercion runs engine
\* code, which yields Nothing while the isolate is terminating execution
\* (term) and when the conversion throws.

\* Nan::To<bool>
To_bool(term, v) ==
    IF v.t = "boolean" THEN Just(v.b)
    ELSE IF term THEN Nothing
    ELSE IF v.t \in {"undefined", "null"} THEN Just(FALSE)
    ELSE IF v.t = "number" THEN Just(~(isnan(v.n) \/ v.n = Fin(0)))
    ELSE IF v.t = "string" THEN Just(~(v.s = ""))
    ELSE Just(TRUE)

\* Nan::To<double>
To_double(term, v) ==
    IF v.t = "number" THEN Just(v.n)
    ELSE IF term THEN Nothing
    ELSE IF v.thr THEN Nothing
    ELSE Just(v.n)

\* Nan::To<v8::Object>: undefined and null have no object form (TypeError);
\* a primitive is wrapped in a new object of its type
To_Object(term, v) ==
    IF v.t \in ObjectTypes THEN Just(v)
    ELSE IF term THEN Nothing
    ELSE IF v.t \in {"undefined", "null"} THEN Nothing
    ELSE Just(HV("object", v.b, v.n, v.s, 0, v.thr))

\* the text of a value
Text(v) ==
    IF v.t = "string" THEN v.s
    ELSE IF v.t = "boolean" THEN (IF v.b THEN "true" ELSE "false")
    ELSE IF v.t = "number" THEN
        (IF isnan(v.n) THEN "NaN" ELSE IF v.n = PosInf THEN "Infinity" ELSE IF v.n = NegInf THEN "-Infinity"
         ELSE IF v.n = Fin(0) THEN "0" ELSE IF v.n = Fin(1) THEN "1" ELSE "-1")
    ELSE IF v.t \in {"undefined", "null"} THEN v.t
    ELSE IF v.t = "function" THEN "function () {}"
    ELSE IF v.t = "array" THEN ""
    ELSE "[object]"

\* v8::Value::ToString(): the string, or an empty handle (Nothing)
Value_ToString(term, v) ==
    IF v.t = "string" THEN Just(v.s)
    ELSE IF term THEN Nothing
    ELSE IF v.thr THEN Nothing
    ELSE Just(Text(v))

\* node::String built from a v8::Local<v8::String>: the text of the string,
\* the empty string for an empty handle
String_ctor(m) == FromMaybe(m, "")

----------------------------------------------------------------------------
\* What a bridge operation does: returns a value or throws.

\* std::invalid_argument, thrown by to_number
InvalidArgument == "invalid_argument"
\* std::runtime_error, thrown by to_binary
TypeMismatch == "runtime_error"

Ok(x) == [status |-> "ok", ret |-> x]
Throw(e) == [status |-> e, ret |-> FALSE]

\* Construction.

from_boolean(b) == Boolean(b)
from_null == NullValue
from_number(d) == Number(d)
from_string(s) == StringValue(s)
from_undefined == Undefined

\* Extraction of the scalar kinds.

\* to_boolean that lets a failed coercion through as an error
to_boolean_throwing(term, v) ==
    IF To_bool(term, v).just THEN Ok(To_bool(term, v).val) ELSE Throw(InvalidArgument)
to_boolean(term, v) == Ok(FromMaybe(To_bool(term, v), FALSE))

\* to_number without the NaN test
to_number_unchecked(term, v) == Ok(FromMaybe(To_double(term, v), NaN))
to_number(term, v) ==
    LET number == FromMaybe(To_double(term, v), NaN)
    IN  IF isnan(number) THEN Throw(InvalidArgument) ELSE Ok(number)

to_string(term, v) == Ok(String_ctor(Value_ToString(term, v)))

\* to_object that hands the value back where the coercion fails
to_object_unchecked(term, v) == Ok(FromMaybe(To_Object(term, v), v))
to_object(term, v) == Ok(FromMaybe(To_Object(term, v), Empty))
to_array(term, v) == to_object(term, v)
to_date(term, v) == to_object(term, v)

to_function(v) == Ok(IF v.t = "function" THEN v ELSE Empty)
to_constructor(v) == to_function(v)

----------------------------------------------------------------------------
\* Binary host objects.  objs[i] is one object of the engine's heap:
\*   rep   "ArrayBuffer", "ArrayBufferView" (a typed array or DataView),
\*         "BufferView" (a node Buffer that is a Uint8Array) or "Buffer"
\*         (a node Buffer that is no ArrayBufferView)
\*   data  the backing store of an ArrayBuffer or Buffer (Null when it has none)
\*   len   its byte length
\*   buf   for a view, the index of the ArrayBuffer it views (else 0)
\*   off   for a view, its byte offset into that ArrayBuffer

HostObj(rep, data, len, buf, off) == [rep |-> rep, data |-> data, len |-> len, buf |-> buf, off |-> off]

\* v8::ArrayBuffer::GetContents
GetContents(os, v) == [Data |-> os[v.id].data, ByteLength |-> os[v.id].len]

\* v8::ArrayBufferView::ByteLength
View_ByteLength(os, v) == os[v.id].len

\* where the bytes of the view begin: its buffer's backing store plus its offset
View_Source(os, v) ==
    LET store == os[os[v.id].buf].data
    IN  IF store = Null THEN Null ELSE Ptr(store.blk, store.off + os[v.id].off)

\* v8::ArrayBufferView::CopyContents(dest, byte_length): the bytes it copies
\* to dest, min(byte_length, ByteLength()) bytes from the view's offset on;
\* their number is its return value
View_CopyContents(h, os, v, byte_length) ==
    Read(h, View_Source(os, v), Min(byte_length, os[v.id].len))

\* ::node::Buffer::Data and ::node::Buffer::Length
Buffer_Data(os, v) == IF os[v.id].rep = "Buffer" THEN os[v.id].data ELSE View_Source(os, v)
Buffer_Length(os, v) == os[v.id].len

\* v8::ArrayBuffer::New(isolate, n): a zero-filled backing store of n bytes.
\* For n = 0 the allocator decides (z) whether there is a backing store.
ArrayBuffer_New(h, n, z) ==
    IF n = 0 /\ ~z THEN [heap |-> h, obj |-> HostObj("ArrayBuffer", Null, n, 0, 0)]
    ELSE [heap |-> Alloc(h, "engine", Zeros(n)), obj |-> HostObj("ArrayBuffer", Ptr(NewBlk(h), 0), n, 0, 0)]

\* BinaryData: a pointer and a size
BinaryData(p, n) == [data |-> p, size |-> n]

\* from_binary that leaves the new buffer as allocated
from_binary_uncopied(h, data, z) == ArrayBuffer_New(h, data.size, z)

\* from_binary that wraps the caller's memory instead of copying it
from_binary_aliasing(h, data, z) == [heap |-> h, obj |-> HostObj("ArrayBuffer", data.data, data.size, 0, 0)]

\* from_binary(isolate, data): the new ArrayBuffer and the heap it leaves
from_binary(h, data, z) ==
    LET buffer == ArrayBuffer_New(h, data.size, z)
        contents == [Data |-> buffer.obj.data, ByteLength |-> buffer.obj.len]
    IN  [heap |-> IF data.size > 0 THEN Memcpy(buffer.heap, contents.Data, Read(h, data.data, data.size))
                  ELSE buffer.heap,
         obj |-> buffer.obj]

\* An OwnedBinaryData: the buffer it owns and its size.
Owned(p, n) == [ptr |-> p, size |-> n]

\* OwnedData(const char* data, size_t size): copies size bytes of data into a
\* buffer of its own; owns no buffer when data is null
OwnedData_copy(h, data, size) ==
    IF data = Null THEN [heap |-> h, ret |-> Owned(Null, size)]
    ELSE [heap |-> Alloc(h, "bridge", Read(h, data, size)), ret |-> Owned(Ptr(NewBlk(h), 0), size)]

\* the lambda without the placeholder
make_owned_binary_data_null(h, data, length) ==
    IF ~(~(data = Null) \/ length = 0) THEN [status |-> "abort", heap |-> h, ret |-> FALSE]
    ELSE [status |-> "ok"] @@ OwnedData_copy(h, data, length)

\* the lambda of to_binary; REALM_ASSERT(data || length == 0) ends the process
make_owned_binary_data(h, data, length) ==
    IF ~(~(data = Null) \/ length = 0) THEN [status |-> "abort", heap |-> h, ret |-> FALSE]
    ELSE [status |-> "ok"] @@ OwnedData_copy(h, IF ~(data = Null) THEN data ELSE Placeholder, length)

\* to_binary that returns views of an ArrayBuffer's and a Buffer's memory
to_binary_borrowing(h, os, value) ==
    IF is_array_buffer(value) THEN
        LET contents == GetContents(os, value)
        IN  [branch |-> "ArrayBuffer", status |-> "ok", heap |-> h,
             ret |-> Owned(IF contents.Data = Null THEN Placeholder ELSE contents.Data, contents.ByteLength)]
    ELSE IF is_array_buffer_view(value) THEN
        LET copied == View_CopyContents(h, os, value, View_ByteLength(os, value))
            bytes == Len(copied)
        IN  [branch |-> "ArrayBufferView", status |-> "ok",
             heap |-> Alloc(h, "bridge", copied), ret |-> Owned(Ptr(NewBlk(h), 0), bytes)]
    ELSE IF Buffer_HasInstance(value) THEN
        [branch |-> "Buffer", status |-> "ok", heap |-> h,
         ret |-> Owned(IF Buffer_Data(os, value) = Null THEN Placeholder ELSE Buffer_Data(os, value),
                       Buffer_Length(os, value))]
    ELSE [branch |-> "none", status |-> TypeMismatch, heap |-> h, ret |-> FALSE]

\* to_binary that copies a view's bytes from the start of its buffer
to_binary_viewAtStart(h, os, value) ==
    IF is_array_buffer(value) THEN
        LET contents == GetContents(os, value)
        IN  [branch |-> "ArrayBuffer"] @@ make_owned_binary_data(h, contents.Data, contents.ByteLength)
    ELSE IF is_array_buffer_view(value) THEN
        LET copied == Read(h, os[os[value.id].buf].data, View_ByteLength(os, value))
            bytes == Len(copied)
        IN  [branch |-> "ArrayBufferView", status |-> "ok",
             heap |-> Alloc(h, "bridge", copied), ret |-> Owned(Ptr(NewBlk(h), 0), bytes)]
    ELSE IF Buffer_HasInstance(value) THEN
        [branch |-> "Buffer"] @@ make_owned_binary_data(h, Buffer_Data(os, value), Buffer_Length(os, value))
    ELSE [branch |-> "none", status |-> TypeMismatch, heap |-> h, ret |-> FALSE]

\* to_binary that tests for a node Buffer before it tests for a view
to_binary_bufferFirst(h, os, value) ==
    IF is_array_buffer(value) THEN
        LET contents == GetContents(os, value)
        IN  [branch |-> "ArrayBuffer"] @@ make_owned_binary_data(h, contents.Data, contents.ByteLength)
    ELSE IF Buffer_HasInstance(value) THEN
        [branch |-> "Buffer"] @@ make_owned_binary_data(h, Buffer_Data(os, value), Buffer_Length(os, value))
    ELSE IF is_array_buffer_view(value) THEN
        LET copied == View_CopyContents(h, os, value, View_ByteLength(os, value))
            bytes == Len(copied)
        IN  [branch |-> "ArrayBufferView", status |-> "ok",
             heap |-> Alloc(h, "bridge", copied), ret |-> Owned(Ptr(NewBlk(h), 0), bytes)]
    ELSE [branch |-> "none", status |-> TypeMismatch, heap |-> h, ret |-> FALSE]

\* to_binary(isolate, value): the status, the OwnedBinaryData returned, the
\* branch taken and the heap it leaves.  In the ArrayBufferView branch the
\* bytes CopyContents wrote into the new char[] are owned by owned_data, and the
\* OwnedBinaryData returned is copy-constructed from it before it is destroyed.
to_binary(h, os, value) ==
    IF is_array_buffer(value) THEN
        LET contents == GetContents(os, value)
        IN  [branch |-> "ArrayBuffer"] @@ make_owned_binary_data(h, contents.Data, contents.ByteLength)
    ELSE IF is_array_buffer_view(value) THEN
        LET copied == View_CopyContents(h, os, value, View_ByteLength(os, value))
            bytes == Len(copied)
        IN  [branch |-> "ArrayBufferView", status |-> "ok",
             heap |-> Alloc(h, "bridge", copied), ret |-> Owned(Ptr(NewBlk(h), 0), bytes)]
    ELSE IF Buffer_HasInstance(value) THEN
        [branch |-> "Buffer"] @@ make_owned_binary_data(h, Buffer_Data(os, value), Buffer_Length(os, value))
    ELSE [branch |-> "none", status |-> TypeMismatch, heap |-> h, ret |-> FALSE]

----------------------------------------------------------------------------
\* The state.
\*   heap         the blocks of memory
\*   objs         the binary host objects of the engine's heap
\*   last         the last bridge call: its name, argument, status and result,
\*                the branch to_binary took, and in `of` the call that made
\*                its argument when that call was the one before it
\*   held         the OwnedBinaryData the caller holds, with the handle it was
\*                extracted from and the bytes that handle had at that time
\*   terminating  the isolate is terminating execution
\*   writes       the number of writes to memory made so far

NoOrigin == [op |-> "none", arg |-> FALSE]
NoCall == [op |-> "none", arg |-> FALSE, status |-> "ok", ret |-> FALSE, branch |-> "none", of |-> NoOrigin]
\* the operations that take a native value and return a host value
Constructors == {"from_boolean", "from_null", "from_number", "from_string", "from_binary", "from_undefined"}
Call(op, arg, status, ret, branch) ==
    [op |-> op, arg |-> arg, status |-> status, ret |-> ret, branch |-> branch,
     of |-> IF op \notin Constructors /\ last.op \in Constructors /\ last.ret = arg
            THEN [op |-> last.op, arg |-> last.arg] ELSE NoOrigin]

NotHeld == [live |-> FALSE, ptr |-> Null, size |-> 0, from |-> Empty, snap |-> <<>>]

\* where the bytes of the host object i begin, and its bytes
ObjPtr(os, i) == IF os[i].rep \in {"ArrayBuffer", "Buffer"} THEN os[i].data ELSE View_Source(os, Binary(os, i))
ObjBytes(h, os, i) == Read(h, ObjPtr(os, i), os[i].len)

SrcBytes(h) == h[SrcBlk].bytes

Init ==
    /\ heap = [b \in Blocks |-> IF b = SrcBlk THEN [owner |-> "caller", bytes |-> Pattern(MaxLen)] ELSE FreeBlock]
    /\ objs = <<>>
    /\ last = NoCall
    /\ held = NotHeld
    /\ terminating = FALSE
    /\ writes = 0

\* The caller passes a view of its buffer (or the null view) to from_binary.
FromBinary ==
    \E n \in 0..Len(SrcBytes(heap)), z \in BOOLEAN, null \in BOOLEAN :
        LET data == IF null THEN BinaryData(Null, 0) ELSE BinaryData(Ptr(SrcBlk, 0), n)
            r == from_binary(heap, data, z)
            os == Append(objs, r.obj)
        IN  /\ Len(objs) < MaxObjs
            /\ HasFree(heap)
            /\ heap' = r.heap
            /\ objs' = os
            /\ last' = Call("from_binary", data, "ok", Binary(os, Len(os)), "none")
            /\ UNCHANGED <<held, terminating, writes>>

\* The caller extracts the bytes of the host value v and holds the result.
ToBinary(v) ==
    LET r == to_binary(heap, objs, v)
    IN  /\ ~held.live
        /\ HasFree(heap)
        /\ heap' = r.heap
        /\ last' = Call("to_binary", v, r.status, r.ret, r.branch)
        /\ held' = IF r.status = "ok"
                   THEN [live |-> TRUE, ptr |-> r.ret.ptr, size |-> r.ret.size, from |-> v,
                         snap |-> ObjBytes(heap, objs, v.id)]
                   ELSE held
        /\ UNCHANGED <<objs, terminating, writes>>

ToBinaryOfObject == \E i \in DOMAIN objs : ToBinary(Binary(objs, i))

\* ~OwnedBinaryData: the caller lets go of the result, delete[] of its buffer
ReleaseBinary ==
    /\ held.live
    /\ heap' = IF held.ptr.blk \in Blocks THEN Free(heap, held.ptr.blk) ELSE heap
    /\ held' = NotHeld
    /\ last' = NoCall
    /\ UNCHANGED <<objs, terminating, writes>>

\* A script makes a typed array (or, buffer = TRUE, a node Buffer) over len
\* bytes at offset off of the ArrayBuffer i.
EngineNewView ==
    \E i \in DOMAIN objs, off \in 0..MaxLen, len \in 0..MaxLen, buffer \in BOOLEAN :
        /\ Len(objs) < MaxObjs
        /\ objs[i].rep = "ArrayBuffer"
        /\ off + len <= objs[i].len
        /\ objs' = Append(objs, HostObj(IF buffer THEN "BufferView" ELSE "ArrayBufferView", Null, len, i, off))
        /\ last' = NoCall
        /\ UNCHANGED <<heap, held, terminating, writes>>

\* A node Buffer that is no ArrayBufferView, over a store of its own.
EngineNewBuffer ==
    \E bs \in {Pattern(n) : n \in 0..MaxLen}, z \in BOOLEAN :
        /\ Len(objs) < MaxObjs
        /\ HasFree(heap)
        /\ IF Len(bs) = 0 /\ ~z
           THEN /\ objs' = Append(objs, HostObj("Buffer", Null, 0, 0, 0))
                /\ heap' = heap
           ELSE /\ objs' = Append(objs, HostObj("Buffer", Ptr(NewBlk(heap), 0), Len(bs), 0, 0))
                /\ heap' = Alloc(heap, "engine", bs)
        /\ last' = NoCall
        /\ UNCHANGED <<held, terminating, writes>>

\* A script stores the byte b at index k of the host object i.
EngineWrite(i, k, b) ==
    /\ writes < MaxWrites
    /\ k \in 1..objs[i].len
    /\ heap' = Memcpy(heap, Ptr(ObjPtr(objs, i).blk, ObjPtr(objs, i).off + k - 1), <<b>>)
    /\ writes' = writes + 1
    /\ last' = NoCall
    /\ UNCHANGED <<objs, held, terminating>>

EngineWrites == \E i \in DOMAIN objs, k \in 1..MaxLen, b \in Byte : EngineWrite(i, k, b)

\* The caller stores the byte b at index k of its own buffer.
CallerWrite ==
    \E k \in 1..Len(SrcBytes(heap)), b \in Byte :
        /\ writes < MaxWrites
        /\ heap' = Memcpy(heap, Ptr(SrcBlk, k - 1), <<b>>)
        /\ writes' = writes + 1
        /\ last' = NoCall
        /\ UNCHANGED <<objs, held, terminating>>

Next ==
    \/ FromBinary
    \/ ToBinaryOfObject
    \/ ReleaseBinary
    \/ EngineNewView
    \/ EngineNewBuffer
    \/ EngineWrites

Spec == Init /\ [][Next]_vars

\* The copies of from_binary: the caller's buffer, the ArrayBuffers made from
\* it, and the writes of the caller and of the scripts.
NextCopy ==
    \/ FromBinary
    \/ ToBinaryOfObject
    \/ ReleaseBinary
    \/ EngineWrites
    \/ CallerWrite

SpecCopy == Init /\ [][NextCopy]_vars

----------------------------------------------------------------------------
\* The bridge's operations on the values a caller holds.

Predicates ==
    {"is_array", "is_array_buffer", "is_array_buffer_view", "is_date", "is_boolean", "is_constructor",
     "is_function", "is_null", "is_number", "is_object", "is_string", "is_undefined", "is_binary"}

Is(name, v) ==
    CASE name = "is_array" -> is_array(v)
      [] name = "is_array_buffer" -> is_array_buffer(v)
      [] name = "is_array_buffer_view" -> is_array_buffer_view(v)
      [] name = "is_date" -> is_date(v)
      [] name = "is_boolean" -> is_boolean(v)
      [] name = "is_constructor" -> is_constructor(v)
      [] name = "is_function" -> is_function(v)
      [] name = "is_null" -> is_null(v)
      [] name = "is_number" -> is_number(v)
      [] name = "is_object" -> is_object(v)
      [] name = "is_string" -> is_string(v)
      [] name = "is_undefined" -> is_undefined(v)
      [] name = "is_binary" -> is_binary(v)

\* a bridge call that touches neither the heap nor the host objects
Returns(op, arg, r) ==
    /\ last' = Call(op, arg, r.status, r.ret, "none")
    /\ UNCHANGED <<heap, objs, held, terminating, writes>>

Classify == \E name \in Predicates, v \in HostValues(objs) : Returns(name, v, Ok(Is(name, v)))
IsValid == \E v \in HostValues(objs) \cup {Empty} : Returns("is_valid", v, Ok(is_valid(v)))

FromBoolean == \E b \in BOOLEAN : Returns("from_boolean", b, Ok(from_boolean(b)))
FromNull == Returns("from_null", FALSE, Ok(from_null))
FromNumber == \E d \in Doubles : Returns("from_number", d, Ok(from_number(d)))
FromString == \E s \in Strings : Returns("from_string", s, Ok(from_string(s)))
FromUndefined == Returns("from_undefined", FALSE, Ok(from_undefined))

ToBoolean == \E v \in HostValues(objs) : Returns("to_boolean", v, to_boolean(terminating, v))
ToNumber == \E v \in HostValues(objs) : Returns("to_number", v, to_number(terminating, v))
ToStringOf == \E v \in HostValues(objs) : Returns("to_string", v, to_string(terminating, v))
ToObject == \E v \in HostValues(objs) : Returns("to_object", v, to_object(terminating, v))
ToArray == \E v \in HostValues(objs) : Returns("to_array", v, to_array(terminating, v))
ToDate == \E v \in HostValues(objs) : Returns("to_date", v, to_date(terminating, v))
ToFunction == \E v \in HostValues(objs) : Returns("to_function", v, to_function(v))
ToConstructor == \E v \in HostValues(objs) : Returns("to_constructor", v, to_constructor(v))

ToBinaryOfValue == \E v \in HostValues(objs) : ToBinary(v)

\* The embedder asks the isolate to terminate execution, or cancels that.
TerminateExecution ==
    /\ terminating' = ~terminating
    /\ last' = NoCall
    /\ UNCHANGED <<heap, objs, held, writes>>

\* The host objects a caller may be handed: nothing, an ArrayBuffer of n
\* bytes, a view (typed array or node Buffer) of all but the first byte of
\* such an ArrayBuffer, or a node Buffer with a store of its own.
Holding(n, z, kind) ==
    LET h0 == [b \in Blocks |-> IF b = SrcBlk THEN [owner |-> "caller", bytes |-> Pattern(MaxLen)] ELSE FreeBlock]
        r == from_binary(h0, BinaryData(Ptr(SrcBlk, 0), n), z)
        off == Min(n, 1)
    IN  /\ heap = IF kind = "none" THEN h0 ELSE r.heap
        /\ objs = IF kind = "none" THEN <<>>
                  ELSE IF kind = "ArrayBuffer" THEN <<r.obj>>
                  ELSE IF kind = "Buffer" THEN <<HostObj("Buffer", r.obj.data, n, 0, 0)>>
                  ELSE <<r.obj, HostObj(kind, Null, n - off, 1, off)>>
        /\ last = NoCall
        /\ held = NotHeld
        /\ terminating = FALSE
        /\ writes = 0

\* The conversions of values: every predicate, the constructors of the scalar
\* kinds and the extractions that allocate nothing.
InitValue == \E kind \in {"none"} \cup BinaryReps : Holding(MaxLen, FALSE, kind)

NextValue ==
    \/ Classify
    \/ IsValid
    \/ FromBoolean
    \/ FromNull
    \/ FromNumber
    \/ FromString
    \/ FromUndefined
    \/ ToBoolean
    \/ ToNumber
    \/ ToStringOf
    \/ ToObject
    \/ ToArray
    \/ ToDate
    \/ ToFunction
    \/ ToConstructor
    \/ TerminateExecution

SpecValue == InitValue /\ [][NextValue]_vars

\* Which values are binary: is_binary and to_binary on every value.
InitKinds == \E n \in 0..MaxLen, z \in BOOLEAN, kind \in {"none"} \cup BinaryReps : Holding(n, z, kind)

IsBinary == \E v \in HostValues(objs) : Returns("is_binary", v, Ok(is_binary(v)))

NextKinds ==
    \/ IsBinary
    \/ ToBinaryOfValue
    \/ ReleaseBinary

SpecKinds == InitKinds /\ [][NextKinds]_vars

----------------------------------------------------------------------------
\* Properties.

\* the result held is a buffer of the bridge's own that no host object and no
\* caller's buffer shares, of the size of its source and with the bytes the
\* source had when it was extracted
HeldIsOwnedCopy ==
    /\ held.ptr.blk \in Blocks \ {SrcBlk}
    /\ heap[held.ptr.blk].owner = "bridge"
    /\ \A i \in DOMAIN objs : ~(ObjPtr(objs, i).blk = held.ptr.blk)
    /\ held.size = objs[held.from.id].len
    /\ Read(heap, held.ptr, held.size) = held.snap

\* the result held is a view of the memory of its source, and the bridge has
\* allocated nothing
HeldIsBorrowedView ==
    /\ held.ptr = ObjPtr(objs, held.from.id)
    /\ \A b \in Blocks : ~(heap[b].owner = "bridge")

\* C1 as stated: the result of to_binary is a borrowed, zero-copy view of the
\* source's memory for an ArrayBuffer and for a node Buffer, and a newly
\* allocated owned copy for an ArrayBufferView.
C1_BorrowedUnlessView ==
    held.live => IF is_array_buffer_view(held.from) THEN HeldIsOwnedCopy ELSE HeldIsBorrowedView

\* C1 as amended: for each of the three source representations the result of
\* to_binary is a newly allocated owned copy of the source's bytes; none is a
\* view of the source's memory.
C1_AlwaysOwnedCopy == held.live => HeldIsOwnedCopy

C1_Witness == held.live /\ is_array_buffer(held.from) /\ held.size > 0

\* C3: every result of to_binary has a non-null buffer pointer, also when the
\* source has length zero and when the engine reports a null data pointer.
C3_NonNull == held.live => ~(held.ptr = Null)

C3_Witness ==
    /\ held.live
    /\ is_array_buffer(held.from)
    /\ GetContents(objs, held.from).Data = Null
    /\ held.size = 0

\* C4: from_binary(v) is a valid ArrayBuffer of |v| bytes equal to v, and
\* to_binary of it succeeds with |v| bytes equal to v, the empty v included.
C4_RoundTrip ==
    /\ last.op = "from_binary" =>
          /\ is_valid(last.ret)
          /\ is_array_buffer(last.ret)
          /\ objs[last.ret.id].len = last.arg.size
          /\ ObjBytes(heap, objs, last.ret.id) = Read(heap, last.arg.data, last.arg.size)
    /\ last.op = "to_binary" /\ last.of.op = "from_binary" =>
          /\ last.status = "ok"
          /\ last.ret.size = last.of.arg.size
          /\ Read(heap, last.ret.ptr, last.ret.size) = Read(heap, last.of.arg.data, last.of.arg.size)

C4_Witness ==
    /\ last.op = "to_binary"
    /\ last.of.op = "from_binary"
    /\ last.ret.size = MaxLen
    /\ Read(heap, last.ret.ptr, last.ret.size) = Pattern(MaxLen)

\* C6: the result of to_binary for an ArrayBufferView is an owned copy of the
\* view's byte length holding the view's bytes (those from its offset on, not
\* those at the start of its buffer), and stays so whatever is written to the
\* buffer afterwards.
C6_ViewCopy == held.live /\ is_array_buffer_view(held.from) => HeldIsOwnedCopy

C6_Witness ==
    /\ held.live
    /\ is_array_buffer_view(held.from)
    /\ objs[held.from.id].off > 0
    /\ held.size > 0
    /\ objs[objs[held.from.id].buf].len > held.size
    /\ ~(ObjBytes(heap, objs, held.from.id) = held.snap)

\* the stores whose bytes from_binary must keep apart: the caller's buffer (0)
\* and the ArrayBuffers
Stores(os) == {0} \cup {i \in DOMAIN os : os[i].rep = "ArrayBuffer"}
StoreBytes(h, os, i) == IF i = 0 THEN SrcBytes(h) ELSE ObjBytes(h, os, i)
StoreBlk(os, i) == IF i = 0 THEN SrcBlk ELSE os[i].data.blk

\* C7: the ArrayBuffers from_binary makes share no storage with each other
\* nor with the caller's buffer: no step changes the bytes of two of them, so
\* a write to one leaves the bytes of the others and of the source as they were.
C7_Independent ==
    [][ /\ \A i, j \in Stores(objs') :
              ~(i = j) /\ StoreBlk(objs', i) \in Blocks /\ StoreBlk(objs', j) \in Blocks
                  => ~(StoreBlk(objs', i) = StoreBlk(objs', j))
        /\ \A i, j \in Stores(objs) :
              ~(i = j) => \/ StoreBytes(heap', objs', i) = StoreBytes(heap, objs, i)
                          \/ StoreBytes(heap', objs', j) = StoreBytes(heap, objs, j)
        /\ Len(objs') > Len(objs) =>
              \A i \in Stores(objs) : StoreBytes(heap', objs', i) = StoreBytes(heap, objs, i)
      ]_vars

C7_Witness ==
    /\ Len(objs) > 1
    /\ objs[1].len = MaxLen
    /\ objs[2].len = MaxLen
    /\ ~(ObjBytes(heap, objs, 1) = ObjBytes(heap, objs, 2))
    /\ ObjBytes(heap, objs, 2) = SrcBytes(heap)

\* C10: to_binary takes the first branch that matches in the order
\* ArrayBuffer, ArrayBufferView, node Buffer; a value that is both a view and a
\* node Buffer is copied by the view branch, the result as long as the bytes
\* copied; the Buffer branch is left to values that are neither of the others.
C10_BranchOrder ==
    last.op = "to_binary" =>
        /\ last.branch = (IF is_array_buffer(last.arg) THEN "ArrayBuffer"
                          ELSE IF is_array_buffer_view(last.arg) THEN "ArrayBufferView"
                          ELSE IF Buffer_HasInstance(last.arg) THEN "Buffer"
                          ELSE "none")
        /\ is_array_buffer_view(last.arg) /\ Buffer_HasInstance(last.arg) =>
              /\ last.branch = "ArrayBufferView"
              /\ last.status = "ok"
              /\ last.ret.size = Len(View_CopyContents(heap, objs, last.arg, View_ByteLength(objs, last.arg)))
              /\ HeldIsOwnedCopy
        /\ last.branch = "Buffer" => ~is_array_buffer(last.arg) /\ ~is_array_buffer_view(last.arg)

C10_Witness ==
    /\ last.op = "to_binary"
    /\ is_array_buffer_view(last.arg)
    /\ Buffer_HasInstance(last.arg)
    /\ last.ret.size > 0

\* C2: to_binary fails with TypeMismatch exactly for the values that are none
\* of ArrayBuffer, ArrayBufferView and node Buffer, which are the values
\* is_binary rejects, and returns a result for every value is_binary accepts.
C2_TypeMismatchIffNotBinary ==
    /\ last.op = "to_binary" =>
          /\ (last.status = TypeMismatch) = (last.arg.t \notin BinaryReps)
          /\ (last.status = TypeMismatch) = ~is_binary(last.arg)
          /\ is_binary(last.arg) => last.status = "ok" /\ held.live
    /\ last.op = "is_binary" =>
          last.ret = (is_array_buffer(last.arg) \/ is_array_buffer_view(last.arg) \/ Buffer_HasInstance(last.arg))

C2_Witness == last.op = "to_binary" /\ last.status = TypeMismatch /\ is_object(last.arg)

\* C5: to_number returns the engine's numeric coercion unless that is NaN or
\* fails, and then fails with InvalidArgument; so to_number(from_number(d)) is
\* d for every d but NaN, for which it fails; from_number rejects nothing.
C5_ToNumber ==
    /\ last.op = "to_number" =>
          LET m == To_double(terminating, last.arg)
          IN  /\ m.just /\ ~isnan(m.val) => last.status = "ok" /\ last.ret = m.val
              /\ ~m.just \/ isnan(m.val) => last.status = InvalidArgument
    /\ last.op = "to_number" /\ last.of.op = "from_number" =>
          IF isnan(last.of.arg) THEN last.status = InvalidArgument
          ELSE last.status = "ok" /\ last.ret = last.of.arg
    /\ last.op = "from_number" => last.status = "ok" /\ is_number(last.ret) /\ last.ret.n = last.arg

C5_Witness ==
    /\ last.op = "to_number"
    /\ last.of.op = "from_number"
    /\ isnan(last.of.arg)
    /\ last.status = InvalidArgument

ObjectExtractions == {"to_object", "to_array", "to_date"}
FunctionExtractions == {"to_function", "to_constructor"}

\* what C8 says of to_function and to_constructor
C8_Callable ==
    last.op \in FunctionExtractions =>
        /\ last.status = "ok"
        /\ IF is_function(last.arg) THEN last.ret = last.arg /\ is_valid(last.ret) ELSE ~is_valid(last.ret)

\* C8 as stated: to_object, to_array and to_date of a value that is not
\* object-shaped, and to_function and to_constructor of a value that is not
\* callable, return a handle that is not valid; to_function of a callable
\* value returns that handle.
C8_InvalidUnlessObject ==
    /\ last.op \in ObjectExtractions /\ ~is_object(last.arg) => ~is_valid(last.ret)
    /\ C8_Callable

\* C8 as amended: to_object, to_array and to_date return a handle that is not
\* valid for undefined and null, the values the engine cannot coerce to an
\* object, and whenever the engine's coercion fails; of any other value that
\* is no object (a boolean, number, string or symbol) they return a valid
\* handle of a wrapper object, and of an object that object.  to_function and
\* to_constructor are as stated.
C8_InvalidWhereCoercionFails ==
    /\ last.op \in ObjectExtractions =>
          /\ last.status = "ok"
          /\ is_undefined(last.arg) \/ is_null(last.arg) => ~is_valid(last.ret)
          /\ ~To_Object(terminating, last.arg).just => ~is_valid(last.ret)
          /\ is_object(last.arg) => last.ret = last.arg
          /\ ~terminating /\ ~is_object(last.arg) /\ ~is_undefined(last.arg) /\ ~is_null(last.arg) =>
                is_valid(last.ret) /\ is_object(last.ret)
    /\ C8_Callable

C8_Witness == last.op = "to_array" /\ is_undefined(last.arg) /\ ~is_valid(last.ret)

\* C9: but for to_number and to_binary every operation returns a value for
\* every valid host value; to_boolean returns false where the engine's
\* coercion fails, and to_boolean(from_boolean(b)) is b.
C9_OnlyTwoRaise ==
    /\ last.op \notin {"to_number", "to_binary"} => last.status = "ok"
    /\ last.op = "to_boolean" /\ ~To_bool(terminating, last.arg).just => last.ret = FALSE
    /\ last.op = "to_boolean" /\ last.of.op = "from_boolean" => last.ret = last.of.arg

C9_Witness ==
    /\ last.op = "to_boolean"
    /\ ~To_bool(terminating, last.arg).just
    /\ last.ret = FALSE

====
